---- MODULE Spec2Model ----
(***************************************************************************)
(* Model of Stockapp.py: a Streamlit chat page that keeps a conversation   *)
(* store in st.session_state, serialises a window of it into a context     *)
(* string, and calls query_huggingface, which rebuilds role-tagged entries *)
(* from that string, POSTs them and maps the outcome to a text.            *)
(*                                                                         *)
(* TEXT.  A Python str is modelled as a sequence of tokens.  A token is an *)
(* atomic piece of text: " " and "\n" are the whitespace tokens, "User:"   *)
(* and "Assistant:" are the two line tags, "401" and "404" are the two     *)
(* substrings the error classification searches for, and every other token *)
(* is a run of characters that contains none of these and no whitespace at *)
(* its ends.  <<>> is the empty string.  Python's str operations are       *)
(* modelled on tokens by what they do (split, startswith, replace, strip,  *)
(* join, in).                                                              *)
(***************************************************************************)
EXTENDS Integers, Sequences, FiniteSets, TLC

(***************************************************************************)
(* Bounds of the model.                                                    *)
(***************************************************************************)
\* The store is not grown past this many messages.
MaxMsgs == 8
\* Longest context string / completion text handed to a direct call.
MaxLen == 2
\* Store length below which every outcome class is tried on the page.
MaxRich == 4
\* Longest underlying error message (transport message, HTTP reason phrase).
MaxErrLen == 1

(***************************************************************************)
(* Python str operations, on token sequences.                              *)
(***************************************************************************)
\* str.isspace of one token.
IsSpace(t) == t \in {" ", "\n"}

RECURSIVE lstrip(_)
lstrip(s) == IF s # <<>> /\ IsSpace(Head(s)) THEN lstrip(Tail(s)) ELSE s

RECURSIVE rstrip(_)
rstrip(s) ==
    IF s # <<>> /\ IsSpace(s[Len(s)]) THEN rstrip(SubSeq(s, 1, Len(s) - 1)) ELSE s

\* str.strip(): surrounding whitespace removed.
strip(s) == rstrip(lstrip(s))

\* str.split(sep): the pieces between the occurrences of sep (always >= 1 piece).
\* SplitFrom scans s from position i with the current piece in cur.
RECURSIVE SplitFrom(_, _, _, _)
SplitFrom(s, sep, i, cur) ==
    IF i > Len(s) THEN <<cur>>
    ELSE IF s[i] = sep THEN <<cur>> \o SplitFrom(s, sep, i + 1, <<>>)
    ELSE SplitFrom(s, sep, i + 1, Append(cur, s[i]))

split(s, sep) == SplitFrom(s, sep, 1, <<>>)

\* str.startswith(prefix) for a one-token prefix.
startswith(s, prefix) == s # <<>> /\ s[1] = prefix

\* str.replace(old, ""): every occurrence of old removed.
replace(s, old) == SelectSeq(s, LAMBDA t : t # old)

\* sep.join(parts)
RECURSIVE join(_, _)
join(sep, parts) ==
    IF parts = <<>> THEN <<>>
    ELSE IF Len(parts) = 1 THEN parts[1]
    ELSE parts[1] \o <<sep>> \o join(sep, Tail(parts))

\* `sub in s` for a one-token sub.
contains(s, sub) == \E i \in 1..Len(s) : s[i] = sub

\* str.capitalize() of a role name.
capitalize(role) ==
    CASE role = "user" -> "User"
      [] role = "assistant" -> "Assistant"
      [] role = "system" -> "System"

\* All token sequences over S of length at most n.
SeqsUpTo(S, n) == UNION {[1..k -> S] : k \in 0..n}

(***************************************************************************)
(* Configuration and fixed texts.                                          *)
(***************************************************************************)
API_URL == "https://router.huggingface.co/v1/chat/completions"
MODEL_NAME == "google/gemma-2-2b-it"
SYSTEM_PROMPT == <<"You are a friendly and knowledgeable stock market analysis assistant">>

MSG_NO_KEY == <<"HF_API_KEY not found in .env file. Please add your Hugging Face API token.">>
MSG_LOADING == <<"Model is currently loading. Please try again in a moment.">>
MSG_INVALID_KEY == <<"Invalid API key. Please check your HF_API_KEY in the .env file.">>
MSG_RATE_LIMIT == <<"Rate limit reached. Please wait a moment and try again.">>
MSG_FALLBACK ==
    <<"I apologize, but I couldn't generate a response. Please try rephrasing your question.">>
MSG_AUTH_FAILED == <<"Authentication failed. Please verify your HF_API_KEY.">>
MSG_MODEL_NOT_FOUND ==
    <<"Model '", MODEL_NAME, "' not found. Please check your MODEL_NAME in .env file.">>

\* f"Unexpected response format: {result}"
MsgUnexpectedFormat(repr) == <<"Unexpected response format:", " ">> \o repr

\* f"Connection error: {error_msg}\n\nPlease check:\n- ...\n- ...\n- ..."
MsgConnectionError(error_msg) ==
    <<"Connection error:", " ">> \o error_msg
        \o <<"\n", "\n", "Please check:", "\n", "- Your internet connection",
             "\n", "- Your HF_API_KEY", "\n", "- The API endpoint URL">>

\* f"Unexpected error: {str(e)}"
MsgUnexpectedError(msg) == <<"Unexpected error:", " ">> \o msg

(***************************************************************************)
(* The endpoint's answer to one requests.post, as the client sees it.      *)
(*   kind    "transport": requests.post raises a RequestException whose    *)
(*           str() is msg (connection failure, timeout);                   *)
(*           "http": a response arrives with status, reason phrase msg     *)
(*           and a body.                                                   *)
(* The body is described level by level along the path the client reads:   *)
(*   result   the value response.json() decodes to: "invalid" (json()      *)
(*            raises), "null" (null, a number, a boolean), "list", "dict"  *)
(*   choices  result["choices"]: "absent", "null", "empty" list,           *)
(*            "nonempty" list                                              *)
(*   choice   result["choices"][0]: "null" or "dict"                       *)
(*   message  its "message": "absent", "null" or "dict"                    *)
(*   content  the message's "content": "absent", "null", "number" (a       *)
(*            non-zero number) or "str" with value text                    *)
(*   text     the str value of content; for a dict without choices the     *)
(*            value of its "error" key                                     *)
(*   json_error  the class of the exception json() raises on an invalid    *)
(*            body: requests.exceptions.JSONDecodeError is a               *)
(*            RequestException in requests >= 2.27 and a plain ValueError  *)
(*            before; the repository pins no version.                      *)
(***************************************************************************)
NoBody ==
    [result |-> "dict", choices |-> "absent", choice |-> "dict", message |-> "dict",
     content |-> "str", text |-> <<>>, json_error |-> "RequestException"]

TransportFailure(m) == [kind |-> "transport", status |-> 0, msg |-> m, body |-> NoBody]

HttpResponse(s, reason, b) == [kind |-> "http", status |-> s, msg |-> reason, body |-> b]

\* Bodies, one per way the client's reads of the decoded value can go.
InvalidBody(cls) == [NoBody EXCEPT !.result = "invalid", !.json_error = cls]
ScalarBody == [NoBody EXCEPT !.result = "null"]
ListBody == [NoBody EXCEPT !.result = "list"]
ErrorBody(t) == [NoBody EXCEPT !.text = t]
ChoicesBody(c) == [NoBody EXCEPT !.choices = c]
ChoiceBody(ch, m, c, t) ==
    [NoBody EXCEPT !.choices = "nonempty", !.choice = ch, !.message = m,
                   !.content = c, !.text = t]
CompletionBody(t) == ChoiceBody("dict", "dict", "str", t)

(***************************************************************************)
(* query_huggingface.  The try block either returns a text or raises; the  *)
(* except clauses turn what it raises into a text.                         *)
(***************************************************************************)
Return(t) == [kind |-> "return", exc |-> "", text |-> t]
Raise(cls, m) == [kind |-> "raise", exc |-> cls, text |-> m]

\* repr() of a str inside a decoded body: a line break prints as backslash-n.
ReprStr(t) == [i \in 1..Len(t) |-> IF t[i] = "\n" THEN "\\n" ELSE t[i]]

\* f"{result}" of a decoded body that has no usable choices.
Repr(body) ==
    CASE body.result = "null" -> <<"None">>
      [] body.result = "list" -> <<"[]">>
      [] body.result = "dict" /\ body.choices = "empty" -> <<"{'choices': []}">>
      [] OTHER -> <<"{'error': '">> \o ReprStr(body.text) \o <<"'}">>

\* Mutant: only a 4xx status raises.
RaisesForStatus_ClientOnly(response) == 400 <= response.status /\ response.status < 500

\* Response.raise_for_status(): HTTPError for a 4xx or 5xx status.
RaisesForStatus(response) == 400 <= response.status /\ response.status < 600

HTTPErrorMsg(response) ==
    <<ToString(response.status), " ",
      IF response.status < 500 THEN "Client Error:" ELSE "Server Error:", " ">>
        \o response.msg \o <<" ", "for url:", " ", API_URL>>

\* Mutant: the completion text is returned as it came, not stripped.
ExtractCompletion_NoStrip(body) ==
    IF body.result = "dict" /\ body.choices = "nonempty" /\ body.choice = "dict"
           /\ body.message = "dict" /\ body.content = "str" /\ body.text # <<>>
    THEN Return(body.text)
    ELSE IF body.result = "dict" /\ body.choices \in {"absent", "empty"}
    THEN Return(MsgUnexpectedFormat(Repr(body)))
    ELSE Return(MSG_FALLBACK)

\* Lines 186-196: decode the body and extract the first choice's text.
ExtractCompletion(body) ==
    IF body.result = "invalid"
    THEN Raise(body.json_error, <<"Expecting value: line 1 column 1 (char 0)">>)
    ELSE IF body.result = "null"
    THEN Raise("Exception", <<"argument of type 'NoneType' is not iterable">>)
    ELSE IF body.result = "dict" /\ body.choices = "null"
    THEN Raise("Exception", <<"object of type 'NoneType' has no len()">>)
    ELSE IF body.result = "dict" /\ body.choices = "nonempty"
    THEN IF body.choice = "null" \/ body.message = "null"
         THEN Raise("Exception", <<"'NoneType' object has no attribute 'get'">>)
         ELSE IF body.message = "absent" \/ body.content \in {"absent", "null"}
         THEN Return(MSG_FALLBACK)
         ELSE IF body.content = "number"
         THEN Raise("Exception", <<"'int' object has no attribute 'strip'">>)
         ELSE IF body.text # <<>>
         THEN Return(strip(body.text))
         ELSE Return(MSG_FALLBACK)
    ELSE Return(MsgUnexpectedFormat(Repr(body)))

\* Mutant: status 429 is not singled out and falls to raise_for_status.
TryBlock_No429(response) ==
    IF response.kind = "transport" THEN Raise("RequestException", response.msg)
    ELSE IF response.status = 503 THEN Return(MSG_LOADING)
    ELSE IF response.status = 401 THEN Return(MSG_INVALID_KEY)
    ELSE IF RaisesForStatus(response)
    THEN Raise("RequestException", HTTPErrorMsg(response))
    ELSE ExtractCompletion(response.body)

\* Lines 172-196: the try block, after requests.post has answered.
TryBlock(response) ==
    IF response.kind = "transport" THEN Raise("RequestException", response.msg)
    ELSE IF response.status = 503 THEN Return(MSG_LOADING)
    ELSE IF response.status = 401 THEN Return(MSG_INVALID_KEY)
    ELSE IF response.status = 429 THEN Return(MSG_RATE_LIMIT)
    ELSE IF RaisesForStatus(response)
    THEN Raise("RequestException", HTTPErrorMsg(response))
    ELSE ExtractCompletion(response.body)

\* Mutant: no except clause; what the try block raises reaches the caller.
ExceptClauses_None(outcome) == outcome

\* Lines 198-207: the except clauses.
ExceptClauses(outcome) ==
    IF outcome.kind = "return" THEN outcome
    ELSE IF outcome.exc = "RequestException"
    THEN IF contains(outcome.text, "401") THEN Return(MSG_AUTH_FAILED)
         ELSE IF contains(outcome.text, "404") THEN Return(MSG_MODEL_NOT_FOUND)
         ELSE Return(MsgConnectionError(outcome.text))
    ELSE Return(MsgUnexpectedError(outcome.text))

\* Lines 151-158: one role-tagged entry per history line that carries a tag.
RECURSIVE HistoryEntries(_)
HistoryEntries(history_lines) ==
    IF history_lines = <<>> THEN <<>>
    ELSE LET line == Head(history_lines)
             entry ==
                 IF startswith(line, "User:")
                 THEN <<[role |-> "user", content |-> strip(replace(line, "User:"))]>>
                 ELSE IF startswith(line, "Assistant:")
                 THEN <<[role |-> "assistant",
                         content |-> strip(replace(line, "Assistant:"))]>>
                 ELSE <<>>
         IN  entry \o HistoryEntries(Tail(history_lines))

\* Mutant: the preamble is appended after the history instead of before it.
BuildMessages_PreambleLate(prompt, context) ==
    (IF context # <<>> THEN HistoryEntries(split(context, "\n")) ELSE <<>>)
        \o <<[role |-> "system", content |-> SYSTEM_PROMPT]>>
        \o <<[role |-> "user", content |-> prompt]>>

\* Lines 146-161: the request's message sequence.
BuildMessages(prompt, context) ==
    <<[role |-> "system", content |-> SYSTEM_PROMPT]>>
        \o (IF context # <<>> THEN HistoryEntries(split(context, "\n")) ELSE <<>>)
        \o <<[role |-> "user", content |-> prompt]>>

(***************************************************************************)
(* State.                                                                  *)
(***************************************************************************)
VARIABLES
    HF_API_KEY,            \* os.getenv("HF_API_KEY"); <<>> stands for unset or empty
    messages,              \* st.session_state.messages, the conversation store
    conversation_context,  \* st.session_state.conversation_context
    user_input_field,      \* the text the widget keyed "user_input_field" retains
    rerun,                 \* st.rerun() was called: a script run with no user event follows
    appended,              \* history: the messages appended since the last clear
    run,                   \* what the last script run did
    call                   \* the last invocation of query_huggingface

vars ==
    <<HF_API_KEY, messages, conversation_context, user_input_field, rerun,
      appended, run, call>>

\* Python truthiness of a str (or None).
Truthy(s) == s # <<>>

\* Mutant: the credential is not checked before the request is built and sent.
query_huggingface_NoKeyCheck(prompt, context, response) ==
    [payload |-> BuildMessages(prompt, context), posts |-> 1,
     outcome |-> ExceptClauses(TryBlock(response))]

(***************************************************************************)
(* Lines 135-207.  payload is the request's message sequence, posts the    *)
(* number of requests.post calls made, outcome what the caller gets: a     *)
(* returned text, or an exception no except clause caught.                 *)
(***************************************************************************)
query_huggingface(prompt, context, response) ==
    IF ~Truthy(HF_API_KEY)
    THEN [payload |-> <<>>, posts |-> 0, outcome |-> Return(MSG_NO_KEY)]
    ELSE [payload |-> BuildMessages(prompt, context), posts |-> 1,
          outcome |-> ExceptClauses(TryBlock(response))]

\* Mutant: messages[:6], the first six instead of the last six.
context_messages_First(msgs) == IF Len(msgs) > 6 THEN SubSeq(msgs, 1, 6) ELSE msgs

\* Line 318: messages[-6:] if len(messages) > 6 else messages
context_messages(msgs) ==
    IF Len(msgs) > 6 THEN SubSeq(msgs, Len(msgs) - 5, Len(msgs)) ELSE msgs

\* Line 319: f"{msg['role'].capitalize()}: {msg['content']}"
FormatLine(msg) == <<capitalize(msg.role) \o ":", " ">> \o msg.content

\* Line 319: the list comprehension, one line per message.
RECURSIVE FormatLines(_)
FormatLines(msgs) ==
    IF msgs = <<>> THEN <<>> ELSE <<FormatLine(Head(msgs))>> \o FormatLines(Tail(msgs))

\* Line 319: "\n".join(... for msg in context_messages[:-1])
BuildContext(window) == join("\n", FormatLines(SubSeq(window, 1, Len(window) - 1)))

NoCall ==
    [made |-> FALSE, prompt |-> <<>>, context |-> <<>>,
     response |-> TransportFailure(<<>>), payload |-> <<>>, posts |-> 0,
     outcome |-> Return(<<>>)]

CallOf(prompt, context, response) ==
    query_huggingface(prompt, context, response)
        @@ [made |-> TRUE, prompt |-> prompt, context |-> context, response |-> response]

NoRun ==
    [event |-> "load", send_button |-> FALSE, prompt |-> <<>>, processed |-> FALSE,
     window |-> <<>>, history |-> <<>>, appended |-> <<>>, posts |-> 0,
     error |-> FALSE, uncaught |-> FALSE]

\* query_huggingface has been called on its own (see DirectCall): the process
\* that exercises the client apart from the page runs no page session.
DirectCalled == call.made /\ run = NoRun

(***************************************************************************)
(* Inputs.                                                                 *)
(***************************************************************************)
\* Lines 225-234 (one of the eight; all are plain one-line questions).
example_questions == {<<"What is a P/E ratio?">>}

\* Texts typed into the field (a text_input holds one line).
TypedTexts == {<<"hi">>}

ErrMsgs == SeqsUpTo({"x", "401", "404"}, MaxErrLen)
Completions == SeqsUpTo({"a", " ", "\n"}, MaxLen)
Contexts == SeqsUpTo({"a", " ", "\n", "User:", "Assistant:", "System:"}, MaxLen)
DirectPrompts == {<<>>, <<"hi">>}

ErrorStatuses == {400, 401, 403, 404, 429, 500, 503}
PassStatuses == {200, 304}

Bodies ==
    {InvalidBody(c) : c \in {"RequestException", "ValueError"}}
        \cup {ScalarBody, ListBody, ChoicesBody("null"), ChoicesBody("empty")}
        \cup {ErrorBody(t) : t \in {<<"x">>, <<"x", "\n", "y">>}}
        \cup {ChoiceBody("null", "dict", "str", <<>>),
              ChoiceBody("dict", "absent", "str", <<>>),
              ChoiceBody("dict", "null", "str", <<>>),
              ChoiceBody("dict", "dict", "absent", <<>>),
              ChoiceBody("dict", "dict", "null", <<>>),
              ChoiceBody("dict", "dict", "number", <<>>)}
        \cup {CompletionBody(t) : t \in Completions}

\* Every answer a direct call is tried against.
Responses ==
    {TransportFailure(m) : m \in ErrMsgs}
        \cup {HttpResponse(s, m, b) : s \in ErrorStatuses, m \in ErrMsgs,
                                      b \in {NoBody, CompletionBody(<<"a">>)}}
        \cup {HttpResponse(s, <<"OK">>, b) : s \in PassStatuses, b \in Bodies}

\* The answers the page's runs are tried against: one per outcome class
\* while the store holds fewer than MaxRich messages, two afterwards.
RichResponses ==
    {TransportFailure(<<"timed out">>),
     HttpResponse(503, <<"Service Unavailable">>, NoBody),
     HttpResponse(401, <<"Unauthorized">>, NoBody),
     HttpResponse(429, <<"Too Many Requests">>, NoBody),
     HttpResponse(500, <<"Internal Server Error">>, NoBody),
     HttpResponse(200, <<"OK">>, ErrorBody(<<"x">>)),
     HttpResponse(200, <<"OK">>, CompletionBody(<<>>)),
     HttpResponse(200, <<"OK">>, CompletionBody(<<"a", "\n", "b">>))}

PlainResponses ==
    {TransportFailure(<<"timed out">>),
     HttpResponse(200, <<"OK">>, CompletionBody(<<"a", "\n", "b">>))}

PageResponses == IF Len(messages) < MaxRich THEN RichResponses ELSE PlainResponses

(***************************************************************************)
(* Lines 312-335: the end of a script run, where the input is processed.   *)
(* send_button and prompt are what st.button and st.text_input returned in *)
(* this run; response is the endpoint's answer if a request is made.       *)
(***************************************************************************)
ProcessUserInput(event, send_button, prompt, response) ==
    /\ ~DirectCalled
    /\ IF (send_button \/ Truthy(prompt)) /\ Truthy(prompt) /\ Truthy(HF_API_KEY)
       THEN LET user == [role |-> "user", content |-> prompt]
                stored == Append(messages, user)
                window == context_messages(stored)
            IN  /\ Len(messages) + 2 <= MaxMsgs
                /\ call' = CallOf(prompt, BuildContext(window), response)
                /\ LET reply == [role |-> "assistant", content |-> call'.outcome.text]
                       ok == call'.outcome.kind = "return"
                       new == IF ok THEN <<user, reply>> ELSE <<user>>
                   IN  /\ messages' = messages \o new
                       /\ appended' = appended \o new
                       /\ conversation_context' =
                              IF ok THEN call'.context ELSE conversation_context
                       /\ rerun' = ok
                       /\ run' = [event |-> event, send_button |-> send_button,
                                  prompt |-> prompt, processed |-> TRUE,
                                  window |-> window,
                                  history |-> SubSeq(window, 1, Len(window) - 1),
                                  appended |-> new, posts |-> call'.posts,
                                  error |-> FALSE, uncaught |-> ~ok]
       ELSE /\ UNCHANGED <<messages, appended, conversation_context>>
            /\ rerun' = FALSE
            /\ call' = NoCall
            /\ run' = [NoRun EXCEPT !.event = event, !.send_button = send_button,
                                    !.prompt = prompt,
                                    !.error = (send_button \/ Truthy(prompt))
                                                 /\ ~Truthy(HF_API_KEY)]

(***************************************************************************)
(* Operations: one script run each.                                        *)
(***************************************************************************)
\* The user enters a new text in the field: a run with prompt = text.
EnterText ==
    \E text \in TypedTexts \cup {<<>>}, response \in PageResponses :
        /\ text # user_input_field
        /\ user_input_field' = text
        /\ ProcessUserInput("enter", FALSE, text, response)
        /\ UNCHANGED HF_API_KEY

\* The user clicks Send: a run with send_button = True and the retained text.
ClickSend ==
    \E response \in PageResponses :
        /\ ProcessUserInput("send", TRUE, user_input_field, response)
        /\ UNCHANGED <<HF_API_KEY, user_input_field>>

\* Lines 236-238, 291-307: the user clicks an example question.  The run
\* passes it as the field's value and text_input returns it.  Which text the
\* widget holds in the runs after it (nothing, or what it held before)
\* depends on how the installed Streamlit identifies a widget whose value
\* argument changes; either can happen.
ClickExample ==
    \E question \in example_questions, response \in PageResponses,
       kept \in {<<>>, user_input_field} :
        /\ user_input_field' = kept
        /\ ProcessUserInput("example", FALSE, question, response)
        /\ UNCHANGED HF_API_KEY

\* Lines 242-245: Clear Conversation; st.rerun() ends the run there.
ClearConversation ==
    /\ ~DirectCalled
    /\ messages' = <<>>
    /\ conversation_context' = <<>>
    /\ appended' = <<>>
    /\ rerun' = TRUE
    /\ call' = NoCall
    /\ run' = [NoRun EXCEPT !.event = "clear"]
    /\ UNCHANGED <<HF_API_KEY, user_input_field>>

\* The run st.rerun() asked for: no button is pressed, the field keeps its text.
Rerun ==
    /\ rerun
    /\ \E response \in PageResponses :
           ProcessUserInput("rerun", FALSE, user_input_field, response)
    /\ UNCHANGED <<HF_API_KEY, user_input_field>>

\* query_huggingface called on its own in a fresh process: before any event
\* of the page and any other call (it reads HF_API_KEY and its arguments only).
DirectCall ==
    /\ run = NoRun
    /\ ~call.made
    /\ \E prompt \in DirectPrompts, context \in Contexts, response \in Responses :
           call' = CallOf(prompt, context, response)
    /\ UNCHANGED <<HF_API_KEY, messages, conversation_context, user_input_field,
                   rerun, appended, run>>

\* Lines 12, 103-108 and the first run of the script (page load).
Init ==
    /\ HF_API_KEY \in {<<>>, <<"hf_token">>}
    /\ messages = <<>>
    /\ conversation_context = <<>>
    /\ user_input_field = <<>>
    /\ rerun = FALSE
    /\ appended = <<>>
    /\ run = NoRun
    /\ call = NoCall

Next ==
    \/ EnterText
    \/ ClickSend
    \/ ClickExample
    \/ ClearConversation
    \/ Rerun
    \/ DirectCall

Spec == Init /\ [][Next]_vars

(***************************************************************************)
(* Helpers of the properties.                                              *)
(***************************************************************************)
Min(a, b) == IF a < b THEN a ELSE b

\* The last n entries of s, in order.
LastN(s, n) == SubSeq(s, Len(s) - n + 1, Len(s))

UserEvents == {"enter", "send", "example"}

SystemEntry == [role |-> "system", content |-> SYSTEM_PROMPT]

\* The store as it was when the last run began.
StoreBefore == SubSeq(messages, 1, Len(messages) - Len(run.appended))

\* The last call was made with a credential and got an HTTP answer with this status.
Answered(status) ==
    call.made /\ Truthy(HF_API_KEY) /\ call.response.kind = "http"
        /\ call.response.status = status

\* The last call failed in transport, or got a 4xx/5xx status other than 401,
\* 429 and 503.
Failed ==
    /\ call.made
    /\ Truthy(HF_API_KEY)
    /\ \/ call.response.kind = "transport"
       \/ /\ call.response.kind = "http"
          /\ call.response.status \in 400..599
          /\ call.response.status \notin {401, 429, 503}

\* The underlying error message of a failed call: str(e).
Underlying ==
    IF call.response.kind = "transport" THEN call.response.msg
    ELSE HTTPErrorMsg(call.response)

\* The last call got a success response whose body decoded.
Decoded ==
    /\ call.made
    /\ Truthy(HF_API_KEY)
    /\ call.response.kind = "http"
    /\ call.response.status \in PassStatuses
    /\ call.response.body.result # "invalid"

\* The first choice of the decoded body is an object whose message (if any)
\* is an object.
HasFirstChoice ==
    /\ Decoded
    /\ call.response.body.result = "dict"
    /\ call.response.body.choices = "nonempty"
    /\ call.response.body.choice = "dict"
    /\ call.response.body.message # "null"

\* ... and it carries a non-empty completion text.
HasCompletionText ==
    /\ HasFirstChoice
    /\ call.response.body.message = "dict"
    /\ call.response.body.content = "str"
    /\ call.response.body.text # <<>>

\* ... or its completion text is empty or absent.
HasNoCompletionText ==
    /\ HasFirstChoice
    /\ \/ call.response.body.message = "absent"
       \/ call.response.body.content \in {"absent", "null"}
       \/ call.response.body.content = "str" /\ call.response.body.text = <<>>

\* The decoded body is an object or an array with no choices field, or an
\* object with an empty choices list.
HasNoChoices ==
    /\ Decoded
    /\ \/ call.response.body.result = "list"
       \/ /\ call.response.body.result = "dict"
          /\ call.response.body.choices \in {"absent", "empty"}

\* The first token of each text an error condition is reported with.
ErrorTextHeads ==
    {Head(MSG_LOADING), Head(MSG_INVALID_KEY), Head(MSG_RATE_LIMIT),
     Head(MSG_FALLBACK), Head(MSG_AUTH_FAILED), Head(MSG_MODEL_NOT_FOUND),
     "Connection error:", "Unexpected error:", "Unexpected response format:"}

(***************************************************************************)
(* Properties.                                                             *)
(***************************************************************************)
\* C1: one submission (Send click or entered text) appends exactly one user
\* message and one assistant message and issues exactly one request, and the
\* run that follows st.rerun() issues no request and appends nothing.
C1_OneRequestPerSubmission ==
    /\ (run.event \in {"enter", "send"} /\ Truthy(run.prompt) /\ Truthy(HF_API_KEY))
          => /\ run.posts = 1
             /\ Len(run.appended) = 2
             /\ run.appended[1].role = "user"
             /\ run.appended[2].role = "assistant"
    /\ run.event = "rerun" => (run.posts = 0 /\ run.appended = <<>>)

\* C2 as stated: after any submission, the missing credential included, the
\* store has grown by one user message and one assistant message.
C2_EverySubmissionAppended ==
    (run.event \in UserEvents /\ Truthy(run.prompt))
        => /\ ~run.uncaught
           /\ Len(run.appended) = 2
           /\ run.appended[1] = [role |-> "user", content |-> run.prompt]
           /\ run.appended[2].role = "assistant"

\* C2 as amended: every run that processes a prompt ends with the user's
\* message and then an assistant message holding the returned text at the end
\* of the store, no exception escaping; the text of every condition other
\* than a delivered completion starts as one of the error texts.  With no
\* credential the store stays empty, no run processes a prompt, and a
\* submission shows the error banner instead.
C2_ErrorsAppended ==
    /\ run.processed
          => /\ Truthy(HF_API_KEY)
             /\ ~run.uncaught
             /\ call.made
             /\ call.outcome.kind = "return"
             /\ run.appended = <<[role |-> "user", content |-> run.prompt],
                                 [role |-> "assistant", content |-> call.outcome.text]>>
             /\ Len(messages) >= 2
             /\ LastN(messages, 2) = run.appended
             /\ ~HasCompletionText
                   => /\ call.outcome.text # <<>>
                      /\ Head(call.outcome.text) \in ErrorTextHeads
    /\ ~Truthy(HF_API_KEY)
          => /\ messages = <<>>
             /\ ~run.processed
             /\ (run.send_button \/ Truthy(run.prompt)) => run.error

\* C2 witness: a transport failure was appended as the assistant's message.
C2_Witness ==
    /\ run.processed
    /\ call.response.kind = "transport"
    /\ Len(messages) = 4
    /\ messages[4] = [role |-> "assistant",
                      content |-> MsgConnectionError(<<"timed out">>)]

\* C3 as stated: every transport failure and every 4xx/5xx status other than
\* 401, 429 and 503 yields the connection-error text with the underlying
\* message, whatever that message contains.
C3_AlwaysConnectionError ==
    Failed => call.outcome = Return(MsgConnectionError(Underlying))

\* C3 as amended: such a failure yields the authentication-failed text when
\* the underlying message contains "401", else the model-not-found text when
\* it contains "404" (always so for status 404), else the connection-error
\* text with the underlying message.
C3_FailureTexts ==
    Failed
        => /\ call.outcome.kind = "return"
           /\ contains(Underlying, "401") => call.outcome.text = MSG_AUTH_FAILED
           /\ (~contains(Underlying, "401") /\ contains(Underlying, "404"))
                 => call.outcome.text = MSG_MODEL_NOT_FOUND
           /\ (~contains(Underlying, "401") /\ ~contains(Underlying, "404"))
                 => call.outcome.text = MsgConnectionError(Underlying)
           /\ (call.response.kind = "http" /\ call.response.status = 404)
                 => call.outcome.text \in {MSG_AUTH_FAILED, MSG_MODEL_NOT_FOUND}

\* C3 witness: a 500 answer reported as a connection error with its message.
C3_Witness ==
    /\ Failed
    /\ call.response.kind = "http"
    /\ call.response.status = 500
    /\ call.outcome.text = MsgConnectionError(HTTPErrorMsg(call.response))

\* C4: in every request the system preamble is entry 0 (position 1 here) and
\* no other entry has role system; the store never holds a system message.
C4_SystemFirstOnly ==
    /\ (call.made /\ Truthy(HF_API_KEY))
          => /\ Len(call.payload) >= 2
             /\ call.payload[1] = SystemEntry
             /\ \A i \in 2..Len(call.payload) : call.payload[i].role # "system"
    /\ \A i \in 1..Len(messages) : messages[i].role \in {"user", "assistant"}

\* C4 witness: a request of the page that carries history entries.
C4_Witness ==
    /\ run.processed
    /\ Len(messages) >= 4
    /\ Len(call.payload) >= 4

\* C5: the context window is the last min(6, k) of the k messages appended
\* since the last clear, in order, both for the store as it is and for the
\* window the last processing run took (before it appended the reply); after
\* a clear the store, the saved context and the window are empty.
C5_WindowIsLastSix ==
    /\ context_messages(messages) = LastN(appended, Min(6, Len(appended)))
    /\ run.processed
          => LET then == SubSeq(appended, 1, Len(appended) - (Len(run.appended) - 1))
             IN  run.window = LastN(then, Min(6, Len(then)))
    /\ run.event = "clear"
          => /\ messages = <<>>
             /\ conversation_context = <<>>
             /\ context_messages(messages) = <<>>

\* C5 witness: a run took its window from a store of seven messages.
C5_Witness ==
    /\ run.processed
    /\ Len(appended) = 8
    /\ Len(run.window) = 6
    /\ run.window[6] = [role |-> "user", content |-> run.prompt]

\* C6: the history handed to the client is the stored messages before the
\* prompt, the last 6 of them when at least 6 exist and all of them otherwise.
C6_HistoryIsLastSixBefore ==
    run.processed
        => run.history = LastN(StoreBefore, Min(6, Len(StoreBefore)))

\* C7: with no credential every call returns the configuration-error text
\* and no request is issued, by a call or by a run of the page.
C7_NoKeyNoRequest ==
    ~Truthy(HF_API_KEY)
        => /\ call.made => call.outcome = Return(MSG_NO_KEY)
           /\ call.posts = 0
           /\ run.posts = 0

\* C7 witness: a call without credential, with a prompt and a context.
C7_Witness ==
    /\ ~Truthy(HF_API_KEY)
    /\ call.made
    /\ call.prompt # <<>>
    /\ call.context # <<>>
    /\ call.outcome.text = MSG_NO_KEY

\* C8: a 503, 401 or 429 answer yields the fixed text of that status,
\* whatever the body, prompt and history, with one request and no second.
C8_FixedStatusTexts ==
    /\ Answered(503) => (call.outcome = Return(MSG_LOADING) /\ call.posts = 1)
    /\ Answered(401) => (call.outcome = Return(MSG_INVALID_KEY) /\ call.posts = 1)
    /\ Answered(429) => (call.outcome = Return(MSG_RATE_LIMIT) /\ call.posts = 1)

\* C8 witness: a 429 answer with a body and a context.
C8_Witness ==
    /\ Answered(429)
    /\ call.response.body = CompletionBody(<<"a">>)
    /\ call.context # <<>>
    /\ call.outcome.text = MSG_RATE_LIMIT

C10_HistoryRoundTrip ==
    run.processed
        => call.payload = <<SystemEntry>> \o run.history
                              \o <<[role |-> "user", content |-> run.prompt]>>

====
